---- MODULE Spec2Model ----
(***************************************************************************)
(* TechWaan-ERP: the storage layer (server/storage.ts, DatabaseStorage),   *)
(* the HTTP routes that drive it (registerRoutes) and the table            *)
(* constraints of the drizzle schema.                                      *)
(*                                                                         *)
(* Every `await db...` of the code is one database statement, executed in  *)
(* autocommit mode: the code opens no transaction.  A request handler is   *)
(* therefore a sequence of steps, one per statement, and the steps of      *)
(* concurrent handlers interleave.  The synchronous JavaScript between two *)
(* awaits (validation, arithmetic) belongs to the step that follows the    *)
(* await it comes after.                                                   *)
(*                                                                         *)
(* Rows are kept in insertion order; created_at (defaultNow) orders rows   *)
(* in that same order, so "ORDER BY created_at DESC LIMIT 1" is the last   *)
(* element of the sequence.                                                *)
(***************************************************************************)
EXTENDS Integers, Sequences, FiniteSets, TLC

(* ------------------------------ bounds --------------------------------- *)
NumHandlers == 2      \* concurrent request handlers
MaxItems == 2         \* items createItem may insert
MaxQty == 1           \* largest quantity in a request body
MaxLines == 2         \* most line items in one document
MaxBills == 2         \* POST /api/bills is accepted while fewer bills exist
MaxPurchases == 2     \* POST /api/purchases likewise
MaxMovements == 2     \* POST /api/stock-movements is accepted while fewer rows exist
MaxYears == 1         \* turns of the calendar year
FewItems == 1         \* items, in the specifications that narrow the inputs
FewLines == 1         \* line items per document, in SpecDocuments

Handlers == 1..NumHandlers
ItemIds == 1..MaxItems
\* quantity values a client may send: a negative one, zero and positive ones
Quantities == (0 - 1)..MaxQty
\* counterparty ids a client may send: 1 exists, 2 does not
PartyIds == {1, 2}

(* --------------------------- pure helpers ------------------------------ *)
\* Math.max
Max(a, b) == IF a >= b THEN a ELSE b

\* String(n) for n >= 0: the decimal digits, most significant first
RECURSIVE String(_)
String(n) == IF n < 10 THEN <<n>> ELSE String(n \div 10) \o <<n % 10>>

\* s.padStart(len, fill)
RECURSIVE padStart(_, _, _)
padStart(s, len, fill) == IF Len(s) >= len THEN s ELSE padStart(<<fill>> \o s, len, fill)

\* parseInt of a string of decimal digits (leading zeros are skipped)
RECURSIVE parseInt(_)
parseInt(s) == IF s = <<>> THEN 0 ELSE 10 * parseInt(SubSeq(s, 1, Len(s) - 1)) + s[Len(s)]

\* the year written into the template literals `INV-2024-...` and `PUR-2024-...`
LiteralYear == 2024

\* `${prefix}-2024-${suffix}`: the three parts that split('-') gives back
FormatNumber(prefix, n) == <<prefix, LiteralYear, padStart(String(n), 3, 0)>>

\* number.split('-')[2]
Suffix(number) == number[3]

(* ------------------------------- state --------------------------------- *)
VARIABLES
  items,            \* ids of the rows of table items
  inventory,        \* item id -> quantity, for the items that have an inventory row
  stockMovements,   \* rows of stock_movements, in insertion order
  bills,            \* rows of bills, in insertion order
  billItems,        \* rows of bill_items
  purchases,        \* rows of purchases, in insertion order
  purchaseItems,    \* rows of purchase_items
  pc,               \* handler -> the statement it awaits next
  req,              \* handler -> the locals of its request
  now,              \* the calendar year of the database clock (defaultNow)
  issued            \* the item ids gen_random_uuid() has produced so far

vars == <<items, inventory, stockMovements, bills, billItems, purchases, purchaseItems, pc, req,
          now, issued>>

\* the result of a SELECT that matched no row: `const [row] = ...` is undefined
NoRow == <<>>

\* rows of customers / vendors (their CRUD routes are not modelled)
customers == {1}
vendors == {1}

NoMovement == [itemId |-> 0, type |-> "none", quantity |-> 0, reason |-> <<>>]

\* the locals of a handler that serves no request
NoReq ==
  [op |-> "none",        \* the route being served
   err |-> "none",       \* why the request failed, "none" while it has not
   at |-> "none",        \* the statement at which it failed
   allocations |-> 0,    \* calls of getNextBillNumber / getNextPurchaseNumber so far
   number |-> <<>>,      \* billNumber / purchaseNumber
   docId |-> 0,          \* newBill.id / newPurchase.id
   party |-> 0,          \* customerId / vendorId
   lines |-> <<>>,       \* billItemsData / purchaseItemsData
   idx |-> 0,            \* position of the for-of loop over the lines
   movement |-> NoMovement,   \* the argument of createStockMovement
   movementId |-> 0,     \* newMovement.id
   current |-> NoRow,    \* currentInventory: <<quantity>>, or NoRow
   itemId |-> 0,         \* newItem.id / req.params.itemId
   status |-> "none",    \* req.body.status
   path |-> <<>>,        \* req.path of a GET, split at '/'
   route |-> "none",     \* the route whose handler answered the GET
   response |-> [status |-> 0, message |-> "none", body |-> <<>>]]   \* res.status / res.json

Init ==
  /\ items = {}
  /\ inventory = [i \in {} |-> 0]
  /\ stockMovements = <<>>
  /\ bills = <<>>
  /\ billItems = <<>>
  /\ purchases = <<>>
  /\ purchaseItems = <<>>
  /\ pc = [p \in Handlers |-> "idle"]
  /\ req = [p \in Handlers |-> NoReq]
  /\ now = LiteralYear
  /\ issued = {}

\* a handler is free to take a request
Free(p) == pc[p] \in {"idle", "done"}

\* the response is sent: the locals stay readable until the next request
Finish(p, r) ==
  /\ pc' = [pc EXCEPT ![p] = "done"]
  /\ req' = [req EXCEPT ![p] = r]

\* a statement threw (or, before the first statement, schema.parse did): the
\* route's catch block answers 4xx/5xx
Throw(p, r, why) ==
  Finish(p, [r EXCEPT !.err = why, !.at = IF Free(p) THEN "parse" ELSE pc[p]])

(* ------------------------- schema constraints -------------------------- *)
\* items.id is generated (gen_random_uuid): a fresh id
NewItemId == CHOOSE i \in ItemIds \ issued : \A j \in ItemIds \ issued : i <= j

\* .references(() => items.id) on stock_movements, bill_items, purchase_items
ItemExists(itemId) == itemId \in items

\* a slip: the unique constraint on bill_number is missing
BillNumberUnconstrained(bs, number) == TRUE

\* bills.billNumber .unique(): may a row with this number be inserted?
BillNumberFree(bs, number) == \A i \in 1..Len(bs) : bs[i].billNumber # number

\* purchases.purchaseNumber .unique()
PurchaseNumberFree(ps, number) == \A i \in 1..Len(ps) : ps[i].purchaseNumber # number

\* insertBillItemSchema: quantity is an integer >= 1
insertBillItemSchema(line) == line.quantity >= 1

\* insertPurchaseItemSchema: createInsertSchema(purchaseItems), no refinement:
\* any integer quantity parses (the body must carry some purchaseId, which
\* createPurchase overwrites)
insertPurchaseItemSchema(line) == line.quantity \in Int

\* insertStockMovementSchema: createInsertSchema(stockMovements), no refinement
insertStockMovementSchema(m) == m.quantity \in Int

\* stock_movements.type is a free varchar: the three values the code
\* distinguishes, and one it does not
MovementTypes == {"purchase", "sale", "adjustment", "return"}

\* the line-item lists a client may send: up to maxLines lines, each naming one
\* of itemIds and one of quantities
LineLists(itemIds, quantities, maxLines) ==
  UNION {[1..n -> [itemId : itemIds, quantity : quantities]] : n \in 0..maxLines}

(* ------------------------------ items ---------------------------------- *)
\* createItem, first statement: insert into items
createItem_insertItem(p, maxItems) ==
  /\ Free(p)
  /\ Cardinality(issued) < maxItems
  /\ items' = items \cup {NewItemId}
  /\ issued' = issued \cup {NewItemId}
  /\ pc' = [pc EXCEPT ![p] = "createItem_insertInventory"]
  /\ req' = [req EXCEPT ![p] = [NoReq EXCEPT !.op = "createItem", !.itemId = NewItemId]]
  /\ UNCHANGED <<inventory, stockMovements, bills, billItems, purchases, purchaseItems, now>>

\* createItem, second statement: insert the inventory row with quantity 0
createItem_insertInventory(p) ==
  /\ pc[p] = "createItem_insertInventory"
  /\ IF ItemExists(req[p].itemId)
       THEN /\ inventory' = [i \in DOMAIN inventory \cup {req[p].itemId} |->
                               IF i = req[p].itemId THEN 0 ELSE inventory[i]]
            /\ Finish(p, req[p])
       ELSE /\ Throw(p, req[p], "foreign_key")
            /\ UNCHANGED inventory
  /\ UNCHANGED <<items, stockMovements, bills, billItems, purchases, purchaseItems, now, issued>>

\* a slip: the tables that hold an item id carry no foreign key
ItemNeverReferenced(itemId) == FALSE

\* a row of inventory, stock_movements, bill_items or purchase_items references
\* the item: .references(() => items.id), with no ON DELETE action
ItemReferenced(itemId) ==
  \/ itemId \in DOMAIN inventory
  \/ \E i \in 1..Len(stockMovements) : stockMovements[i].itemId = itemId
  \/ \E i \in 1..Len(billItems) : billItems[i].itemId = itemId
  \/ \E i \in 1..Len(purchaseItems) : purchaseItems[i].itemId = itemId

\* DELETE /api/items/:id -> deleteItem: DELETE FROM items WHERE id; the
\* statement is rejected while a row references the item, it deletes nothing
\* when no item has the id
deleteItem(p, itemIds) ==
  /\ Free(p)
  /\ \E id \in itemIds :
       LET r == [NoReq EXCEPT !.op = "deleteItem", !.itemId = id]
       IN  IF ItemReferenced(id)
             THEN /\ Throw(p, r, "foreign_key")
                  /\ UNCHANGED items
             ELSE /\ items' = items \ {id}
                  /\ Finish(p, r)
  /\ UNCHANGED <<inventory, stockMovements, bills, billItems, purchases, purchaseItems, now,
                 issued>>

(* ----------------------------- inventory ------------------------------- *)
\* getInventoryByItem: the item's row, or undefined
getInventoryByItem(itemId) ==
  IF itemId \in DOMAIN inventory THEN <<inventory[itemId]>> ELSE NoRow

\* updateInventory: UPDATE inventory SET quantity WHERE item_id = itemId
updateInventory(inv, itemId, quantity) ==
  IF itemId \in DOMAIN inv THEN [inv EXCEPT ![itemId] = quantity] ELSE inv

\* PATCH /api/inventory/:itemId: any body whose quantity is a number
patchInventory(p, itemIds, quantities) ==
  /\ Free(p)
  /\ \E itemId \in itemIds, quantity \in quantities :
       /\ inventory' = updateInventory(inventory, itemId, quantity)
       /\ Finish(p, [NoReq EXCEPT !.op = "patchInventory", !.itemId = itemId])
  /\ UNCHANGED <<items, stockMovements, bills, billItems, purchases, purchaseItems, now, issued>>

(* -------------------------- stock movements ---------------------------- *)
\* a slip: 'adjustment' written with += as the branch above it
newQuantityAdjustmentAdded(current, movement) ==
  IF movement.type = "purchase" THEN current + movement.quantity
  ELSE IF movement.type = "sale" THEN current - movement.quantity
  ELSE IF movement.type = "adjustment" THEN current + movement.quantity
  ELSE current

\* createStockMovement: newQuantity before Math.max
newQuantity(current, movement) ==
  IF movement.type = "purchase" THEN current + movement.quantity
  ELSE IF movement.type = "sale" THEN current - movement.quantity
  ELSE IF movement.type = "adjustment" THEN movement.quantity
  ELSE current

\* a slip: the quantity written without the floor at 0
UnclampedQuantity(current, movement) == newQuantity(current, movement)

\* the quantity createStockMovement writes: Math.max(0, newQuantity)
ClampedQuantity(current, movement) == Max(0, newQuantity(current, movement))

\* a slip: the insert written as an upsert keyed on the item, so that the new
\* row takes the place of the item's earlier rows
UpsertMovement(p, r, movement) ==
  IF ItemExists(movement.itemId)
    THEN /\ stockMovements' =
               Append(SelectSeq(stockMovements, LAMBDA m : m.itemId # movement.itemId),
                      [id |-> Len(stockMovements) + 1, itemId |-> movement.itemId,
                       type |-> movement.type, quantity |-> movement.quantity,
                       reason |-> movement.reason])
         /\ pc' = [pc EXCEPT ![p] = "getInventoryByItem"]
         /\ req' = [req EXCEPT ![p] = [r EXCEPT !.movement = movement,
                                                 !.movementId = Len(stockMovements) + 1,
                                                 !.current = NoRow]]
    ELSE /\ Throw(p, r, "foreign_key")
         /\ UNCHANGED stockMovements

\* createStockMovement, first statement: insert the movement row
InsertMovement(p, r, movement) ==
  IF ItemExists(movement.itemId)
    THEN /\ stockMovements' = Append(stockMovements,
               [id |-> Len(stockMovements) + 1, itemId |-> movement.itemId,
                type |-> movement.type, quantity |-> movement.quantity,
                reason |-> movement.reason])
         /\ pc' = [pc EXCEPT ![p] = "getInventoryByItem"]
         /\ req' = [req EXCEPT ![p] = [r EXCEPT !.movement = movement,
                                                 !.movementId = Len(stockMovements) + 1,
                                                 !.current = NoRow]]
    ELSE /\ Throw(p, r, "foreign_key")
         /\ UNCHANGED stockMovements

\* a slip: the loop over the lines returns after its first pass
AfterFirstMovement(p, r) == Finish(p, r)

\* createStockMovement returned: the for-of loop of createBill / createPurchase
\* goes on with the next line; after the last line the document is read back
\* (getBill / getPurchase, no write) and the response is sent
AfterMovement(p, r) ==
  IF r.op \in {"bill", "purchase"} /\ r.idx < Len(r.lines)
    THEN /\ pc' = [pc EXCEPT ![p] = "createStockMovement"]
         /\ req' = [req EXCEPT ![p] = [r EXCEPT !.idx = r.idx + 1]]
    ELSE Finish(p, r)

\* POST /api/stock-movements: parse the body, then createStockMovement's insert
postStockMovement(p, itemIds, quantities) ==
  /\ Free(p)
  /\ Len(stockMovements) < MaxMovements
  /\ \E itemId \in itemIds, type \in MovementTypes, quantity \in quantities :
       LET movement == [itemId |-> itemId, type |-> type, quantity |-> quantity,
                        reason |-> <<>>]
           r == [NoReq EXCEPT !.op = "stockMovement", !.movement = movement]
       IN  IF insertStockMovementSchema(movement)
             THEN InsertMovement(p, r, movement)
             ELSE /\ Throw(p, r, "validation")
                  /\ UNCHANGED stockMovements
  /\ UNCHANGED <<items, inventory, bills, billItems, purchases, purchaseItems, now, issued>>

\* createStockMovement, second statement: read the inventory row
createStockMovement_getInventoryByItem(p) ==
  /\ pc[p] = "getInventoryByItem"
  /\ LET current == getInventoryByItem(req[p].movement.itemId)
     IN  IF current = NoRow
           THEN AfterMovement(p, req[p])
           ELSE /\ pc' = [pc EXCEPT ![p] = "updateInventory"]
                /\ req' = [req EXCEPT ![p].current = current]
  /\ UNCHANGED <<items, inventory, stockMovements, bills, billItems, purchases, purchaseItems, now, issued>>

\* createStockMovement, third statement: write the new quantity
createStockMovement_updateInventory(p) ==
  /\ pc[p] = "updateInventory"
  /\ inventory' = updateInventory(inventory, req[p].movement.itemId,
                                  ClampedQuantity(req[p].current[1], req[p].movement))
  /\ AfterMovement(p, req[p])
  /\ UNCHANGED <<items, stockMovements, bills, billItems, purchases, purchaseItems, now, issued>>

(* -------------------------------- bills -------------------------------- *)
\* a slip: the ORDER BY ascending, so that the oldest bill is read
getNextBillNumberAfterFirst(bs) ==
  IF bs = <<>>
    THEN <<"INV", LiteralYear, <<0, 0, 1>>>>
    ELSE LET lastNumber == parseInt(Suffix(bs[1].billNumber))
         IN  FormatNumber("INV", lastNumber + 1)

\* getNextBillNumber: the number after that of the most recently created bill
getNextBillNumber(bs) ==
  IF bs = <<>>
    THEN <<"INV", LiteralYear, <<0, 0, 1>>>>
    ELSE LET lastNumber == parseInt(Suffix(bs[Len(bs)].billNumber))
         IN  FormatNumber("INV", lastNumber + 1)

\* getBill: the header joined to its customer, with its line items joined to
\* their items: <<the hydrated bill>>, or NoRow when no header matches
getBill(id) ==
  LET billResult == SelectSeq(bills, LAMBDA b : b.id = id /\ b.customerId \in customers)
      billItemsResult == SelectSeq(billItems, LAMBDA bi : bi.billId = id /\ bi.itemId \in items)
  IN  IF billResult = <<>>
        THEN NoRow
        ELSE <<[bill |-> billResult[1], billItems |-> billItemsResult]>>

\* POST /api/bills, up to the call of createBill: getNextBillNumber, then the
\* two schema.parse calls
postBill_getNextBillNumber(p, lineLists) ==
  /\ Free(p)
  /\ Len(bills) < MaxBills
  /\ \E customerId \in PartyIds, lines \in lineLists :
       LET r == [NoReq EXCEPT !.op = "bill", !.allocations = 1,
                              !.number = getNextBillNumber(bills),
                              !.party = customerId, !.lines = lines]
       IN  IF \A i \in 1..Len(lines) : insertBillItemSchema(lines[i])
             THEN /\ pc' = [pc EXCEPT ![p] = "createBill_insertBill"]
                  /\ req' = [req EXCEPT ![p] = r]
             ELSE Throw(p, r, "validation")
  /\ UNCHANGED <<items, inventory, stockMovements, bills, billItems, purchases, purchaseItems, now, issued>>

\* a slip: the number is checked by the application after the header is written
createBill_insertBillThenCheck(p) ==
  /\ pc[p] = "createBill_insertBill"
  /\ bills' = Append(bills, [id |-> Len(bills) + 1, billNumber |-> req[p].number,
                             customerId |-> req[p].party, status |-> "pending",
                             createdAt |-> now])
  /\ IF ~BillNumberFree(bills, req[p].number)
       THEN Throw(p, req[p], "unique")
       ELSE /\ pc' = [pc EXCEPT ![p] = "createBill_insertBillItems"]
            /\ req' = [req EXCEPT ![p].docId = Len(bills) + 1]
  /\ UNCHANGED <<items, inventory, stockMovements, billItems, purchases, purchaseItems, now, issued>>

\* createBill, first statement: insert the header
createBill_insertBill(p) ==
  /\ pc[p] = "createBill_insertBill"
  /\ IF ~BillNumberFree(bills, req[p].number)
       THEN /\ Throw(p, req[p], "unique")
            /\ UNCHANGED bills
       ELSE IF req[p].party \notin customers
         THEN /\ Throw(p, req[p], "foreign_key")
              /\ UNCHANGED bills
         ELSE /\ bills' = Append(bills, [id |-> Len(bills) + 1, billNumber |-> req[p].number,
                                         customerId |-> req[p].party, status |-> "pending",
                                         createdAt |-> now])
              /\ pc' = [pc EXCEPT ![p] = "createBill_insertBillItems"]
              /\ req' = [req EXCEPT ![p].docId = Len(bills) + 1]
  /\ UNCHANGED <<items, inventory, stockMovements, billItems, purchases, purchaseItems, now, issued>>

\* createBill, second statement: insert all line items in one INSERT.  An empty
\* list makes values() throw; an unknown item id violates the foreign key.
createBill_insertBillItems(p) ==
  /\ pc[p] = "createBill_insertBillItems"
  /\ LET lines == req[p].lines
     IN  IF lines = <<>>
           THEN /\ Throw(p, req[p], "empty")
                /\ UNCHANGED billItems
           ELSE IF \E i \in 1..Len(lines) : ~ItemExists(lines[i].itemId)
             THEN /\ Throw(p, req[p], "foreign_key")
                  /\ UNCHANGED billItems
             ELSE /\ billItems' = billItems \o
                       [i \in 1..Len(lines) |->
                          [billId |-> req[p].docId, itemId |-> lines[i].itemId,
                           quantity |-> lines[i].quantity]]
                  /\ pc' = [pc EXCEPT ![p] = "createStockMovement"]
                  /\ req' = [req EXCEPT ![p].idx = 1]
  /\ UNCHANGED <<items, inventory, stockMovements, bills, purchases, purchaseItems, now, issued>>

\* createBill, the body of the for-of loop: createStockMovement of a 'sale'
createBill_createStockMovement(p) ==
  /\ pc[p] = "createStockMovement"
  /\ req[p].op = "bill"
  /\ LET billItem == req[p].lines[req[p].idx]
     IN  InsertMovement(p, req[p],
           [itemId |-> billItem.itemId, type |-> "sale", quantity |-> billItem.quantity,
            reason |-> <<"Sale - Bill", req[p].number>>])
  /\ UNCHANGED <<items, inventory, bills, billItems, purchases, purchaseItems, now, issued>>

(* ----------------------------- bill status ----------------------------- *)
\* bills.status is a free varchar and the route does not validate the body: the
\* three values the schema's comment names, and one it does not
Statuses == {"pending", "paid", "cancelled", "void"}

\* a slip: the UPDATE without its WHERE clause
updateBillStatusOfEveryBill(bs, id, status) ==
  [i \in 1..Len(bs) |-> [bs[i] EXCEPT !.status = status]]

\* updateBillStatus: UPDATE bills SET status WHERE id = id
updateBillStatus(bs, id, status) ==
  [i \in 1..Len(bs) |-> IF bs[i].id = id THEN [bs[i] EXCEPT !.status = status] ELSE bs[i]]

\* PATCH /api/bills/:id/status, up to the call of updateBillStatus: any id and
\* any status are taken from the request
patchBillStatus(p, ids, statuses) ==
  /\ Free(p)
  /\ \E id \in ids, status \in statuses :
       /\ pc' = [pc EXCEPT ![p] = "updateBillStatus"]
       /\ req' = [req EXCEPT ![p] = [NoReq EXCEPT !.op = "billStatus", !.docId = id,
                                                  !.status = status]]
  /\ UNCHANGED <<items, inventory, stockMovements, bills, billItems, purchases, purchaseItems,
                 now, issued>>

\* PATCH /api/bills/:id/status, its statement; an id that matches no bill
\* updates nothing and the route still answers 200
patchBillStatus_updateBillStatus(p) ==
  /\ pc[p] = "updateBillStatus"
  /\ bills' = updateBillStatus(bills, req[p].docId, req[p].status)
  /\ Finish(p, req[p])
  /\ UNCHANGED <<items, inventory, stockMovements, billItems, purchases, purchaseItems, now, issued>>

(* ------------------------------ purchases ------------------------------ *)
\* getNextPurchaseNumber
getNextPurchaseNumber(ps) ==
  IF ps = <<>>
    THEN <<"PUR", LiteralYear, <<0, 0, 1>>>>
    ELSE LET lastNumber == parseInt(Suffix(ps[Len(ps)].purchaseNumber))
         IN  FormatNumber("PUR", lastNumber + 1)

\* getPurchase: as getBill
getPurchase(id) ==
  LET purchaseResult == SelectSeq(purchases, LAMBDA b : b.id = id /\ b.vendorId \in vendors)
      purchaseItemsResult ==
        SelectSeq(purchaseItems, LAMBDA bi : bi.purchaseId = id /\ bi.itemId \in items)
  IN  IF purchaseResult = <<>>
        THEN NoRow
        ELSE <<[purchase |-> purchaseResult[1], purchaseItems |-> purchaseItemsResult]>>

\* POST /api/purchases, up to the call of createPurchase
postPurchase_getNextPurchaseNumber(p, lineLists) ==
  /\ Free(p)
  /\ Len(purchases) < MaxPurchases
  /\ \E vendorId \in PartyIds, lines \in lineLists :
       LET r == [NoReq EXCEPT !.op = "purchase", !.allocations = 1,
                              !.number = getNextPurchaseNumber(purchases),
                              !.party = vendorId, !.lines = lines]
       IN  IF \A i \in 1..Len(lines) : insertPurchaseItemSchema(lines[i])
             THEN /\ pc' = [pc EXCEPT ![p] = "createPurchase_insertPurchase"]
                  /\ req' = [req EXCEPT ![p] = r]
             ELSE Throw(p, r, "validation")
  /\ UNCHANGED <<items, inventory, stockMovements, bills, billItems, purchases, purchaseItems, now, issued>>

\* createPurchase, first statement: insert the header
createPurchase_insertPurchase(p) ==
  /\ pc[p] = "createPurchase_insertPurchase"
  /\ IF ~PurchaseNumberFree(purchases, req[p].number)
       THEN /\ Throw(p, req[p], "unique")
            /\ UNCHANGED purchases
       ELSE IF req[p].party \notin vendors
         THEN /\ Throw(p, req[p], "foreign_key")
              /\ UNCHANGED purchases
         ELSE /\ purchases' = Append(purchases,
                    [id |-> Len(purchases) + 1, purchaseNumber |-> req[p].number,
                     vendorId |-> req[p].party, createdAt |-> now])
              /\ pc' = [pc EXCEPT ![p] = "createPurchase_insertPurchaseItems"]
              /\ req' = [req EXCEPT ![p].docId = Len(purchases) + 1]
  /\ UNCHANGED <<items, inventory, stockMovements, bills, billItems, purchaseItems, now, issued>>

\* createPurchase, second statement: insert all line items in one INSERT
createPurchase_insertPurchaseItems(p) ==
  /\ pc[p] = "createPurchase_insertPurchaseItems"
  /\ LET lines == req[p].lines
     IN  IF lines = <<>>
           THEN /\ Throw(p, req[p], "empty")
                /\ UNCHANGED purchaseItems
           ELSE IF \E i \in 1..Len(lines) : ~ItemExists(lines[i].itemId)
             THEN /\ Throw(p, req[p], "foreign_key")
                  /\ UNCHANGED purchaseItems
             ELSE /\ purchaseItems' = purchaseItems \o
                       [i \in 1..Len(lines) |->
                          [purchaseId |-> req[p].docId, itemId |-> lines[i].itemId,
                           quantity |-> lines[i].quantity]]
                  /\ pc' = [pc EXCEPT ![p] = "createStockMovement"]
                  /\ req' = [req EXCEPT ![p].idx = 1]
  /\ UNCHANGED <<items, inventory, stockMovements, bills, billItems, purchases, now, issued>>

\* createPurchase, the body of the for-of loop: createStockMovement of a 'purchase'
createPurchase_createStockMovement(p) ==
  /\ pc[p] = "createStockMovement"
  /\ req[p].op = "purchase"
  /\ LET purchaseItem == req[p].lines[req[p].idx]
     IN  InsertMovement(p, req[p],
           [itemId |-> purchaseItem.itemId, type |-> "purchase",
            quantity |-> purchaseItem.quantity,
            reason |-> <<"Purchase -", req[p].number>>])
  /\ UNCHANGED <<items, inventory, bills, billItems, purchases, purchaseItems, now, issued>>

(* ----------------------------- GET routing ------------------------------ *)
\* a path segment that is a fixed text; it is no row's generated id
Literal(text) == [text |-> text, id |-> 0]

\* a path segment that is the id of row n
IdSegment(n) == [text |-> "<id>", id |-> n]

\* the GET routes of bills and purchases, in the order registerRoutes
\* registers them
Routes ==
  << [pattern |-> <<"api", "bills">>, handler |-> "getBills"],
     [pattern |-> <<"api", "bills", ":id">>, handler |-> "getBill"],
     [pattern |-> <<"api", "bills", "next-number">>, handler |-> "getNextBillNumber"],
     [pattern |-> <<"api", "purchases">>, handler |-> "getPurchases"],
     [pattern |-> <<"api", "purchases", ":id">>, handler |-> "getPurchase"],
     [pattern |-> <<"api", "purchases", "next-number">>, handler |-> "getNextPurchaseNumber"] >>

\* a route pattern matches a path: a ':name' segment matches any one segment
Matches(pattern, path) ==
  /\ Len(pattern) = Len(path)
  /\ \A k \in 1..Len(pattern) : pattern[k] = ":id" \/ pattern[k] = path[k].text

\* the router: the first registered route that matches handles the request
Dispatch(path) ==
  LET matching == {k \in 1..Len(Routes) : Matches(Routes[k].pattern, path)}
  IN  IF matching = {} THEN "none"
      ELSE Routes[CHOOSE k \in matching : \A j \in matching : k <= j].handler

\* the paths requested
Paths(ids) ==
  UNION { { <<Literal("api"), Literal(c)>>, <<Literal("api"), Literal(c), Literal("next-number")>> }
          \cup { <<Literal("api"), Literal(c), IdSegment(n)>> : n \in ids }
          : c \in {"bills", "purchases"} }

Ok(body) == [status |-> 200, message |-> "none", body |-> body]
NotFound(message) == [status |-> 404, message |-> message, body |-> <<>>]

\* GET of a bills or purchases path: each handler is one read and one answer
get(p, paths) ==
  /\ Free(p)
  /\ \E path \in paths :
       LET route == Dispatch(path)
           response ==
             CASE route = "getBills" ->
                    Ok([k \in 1..Len(bills) |-> bills[k].billNumber])
               [] route = "getBill" ->
                    IF getBill(path[3].id) = NoRow THEN NotFound("Bill not found")
                    ELSE Ok(<<getBill(path[3].id)[1].bill.billNumber>>)
               [] route = "getNextBillNumber" -> Ok(<<getNextBillNumber(bills)>>)
               [] route = "getPurchases" ->
                    Ok([k \in 1..Len(purchases) |-> purchases[k].purchaseNumber])
               [] route = "getPurchase" ->
                    IF getPurchase(path[3].id) = NoRow THEN NotFound("Purchase not found")
                    ELSE Ok(<<getPurchase(path[3].id)[1].purchase.purchaseNumber>>)
               [] route = "getNextPurchaseNumber" -> Ok(<<getNextPurchaseNumber(purchases)>>)
               [] OTHER -> NotFound("none")
       IN  Finish(p, [NoReq EXCEPT !.op = "get", !.path = path, !.route = route,
                                   !.response = response])
  /\ UNCHANGED <<items, inventory, stockMovements, bills, billItems, purchases, purchaseItems, now, issued>>

(* ------------------------------ failures ------------------------------- *)
\* the statement a handler awaits rejects (storage unavailable, connection
\* lost, process killed): nothing is written by it, and the route's catch
\* block ends the request
StorageFailure(p) ==
  /\ ~Free(p)
  /\ Throw(p, req[p], "storage")
  /\ UNCHANGED <<items, inventory, stockMovements, bills, billItems, purchases, purchaseItems, now, issued>>

(* -------------------------------- clock -------------------------------- *)
\* the calendar year turns: defaultNow() and new Date() give the new year from
\* now on
NewYear ==
  /\ now < LiteralYear + MaxYears
  /\ now' = now + 1
  /\ UNCHANGED <<items, inventory, stockMovements, bills, billItems, purchases, purchaseItems,
                 pc, req, issued>>

(* --------------------------- specifications ---------------------------- *)
\* every route, every input
Next ==
  \E p \in Handlers :
    \/ createItem_insertItem(p, MaxItems)
    \/ createItem_insertInventory(p)
    \/ deleteItem(p, ItemIds)
    \/ patchInventory(p, ItemIds, Quantities)
    \/ postStockMovement(p, ItemIds, Quantities)
    \/ createStockMovement_getInventoryByItem(p)
    \/ createStockMovement_updateInventory(p)
    \/ postBill_getNextBillNumber(p, LineLists(ItemIds, Quantities, MaxLines))
    \/ createBill_insertBill(p)
    \/ createBill_insertBillItems(p)
    \/ createBill_createStockMovement(p)
    \/ patchBillStatus(p, 1..MaxBills, Statuses)
    \/ patchBillStatus_updateBillStatus(p)
    \/ postPurchase_getNextPurchaseNumber(p, LineLists(ItemIds, Quantities, MaxLines))
    \/ createPurchase_insertPurchase(p)
    \/ createPurchase_insertPurchaseItems(p)
    \/ createPurchase_createStockMovement(p)
    \/ StorageFailure(p)
    \/ NewYear

Spec == Init /\ [][Next]_vars

\* the stock routes, on few items
NextStock ==
  \E p \in Handlers :
    \/ createItem_insertItem(p, FewItems)
    \/ createItem_insertInventory(p)
    \/ patchInventory(p, 1..FewItems, Quantities)
    \/ postStockMovement(p, 1..FewItems, Quantities)
    \/ createStockMovement_getInventoryByItem(p)
    \/ createStockMovement_updateInventory(p)
    \/ StorageFailure(p)

SpecStock == Init /\ [][NextStock]_vars

\* the bill routes, selling few items
NextBills ==
  \E p \in Handlers :
    \/ createItem_insertItem(p, FewItems)
    \/ createItem_insertInventory(p)
    \/ postBill_getNextBillNumber(p, LineLists(1..FewItems, 0..MaxQty, MaxLines))
    \/ createBill_insertBill(p)
    \/ createBill_insertBillItems(p)
    \/ createBill_createStockMovement(p)
    \/ createStockMovement_getInventoryByItem(p)
    \/ createStockMovement_updateInventory(p)
    \/ StorageFailure(p)

SpecBills == Init /\ [][NextBills]_vars

\* the bill and the purchase routes together, on few items, with short
\* documents of valid lines
NextDocuments ==
  \E p \in Handlers :
    \/ createItem_insertItem(p, FewItems)
    \/ createItem_insertInventory(p)
    \/ postBill_getNextBillNumber(p, LineLists(1..FewItems, {1}, FewLines))
    \/ createBill_insertBill(p)
    \/ createBill_insertBillItems(p)
    \/ createBill_createStockMovement(p)
    \/ postPurchase_getNextPurchaseNumber(p, LineLists(1..FewItems, {1}, FewLines))
    \/ createPurchase_insertPurchase(p)
    \/ createPurchase_insertPurchaseItems(p)
    \/ createPurchase_createStockMovement(p)
    \/ createStockMovement_getInventoryByItem(p)
    \/ createStockMovement_updateInventory(p)
    \/ StorageFailure(p)

SpecDocuments == Init /\ [][NextDocuments]_vars

\* the bill routes with the status route, on short bills of valid lines, the
\* stock set by hand
NextStatus ==
  \E p \in Handlers :
    \/ createItem_insertItem(p, FewItems)
    \/ createItem_insertInventory(p)
    \/ postBill_getNextBillNumber(p, LineLists(1..FewItems, {1}, FewLines))
    \/ createBill_insertBill(p)
    \/ createBill_insertBillItems(p)
    \/ createBill_createStockMovement(p)
    \/ createStockMovement_getInventoryByItem(p)
    \/ createStockMovement_updateInventory(p)
    \/ patchBillStatus(p, 1..MaxBills, Statuses)
    \/ patchBillStatus_updateBillStatus(p)
    \/ patchInventory(p, 1..FewItems, {MaxQty})
    \/ StorageFailure(p)

SpecStatus == Init /\ [][NextStatus]_vars

\* the purchase routes, buying few items
NextPurchases ==
  \E p \in Handlers :
    \/ createItem_insertItem(p, FewItems)
    \/ createItem_insertInventory(p)
    \/ postPurchase_getNextPurchaseNumber(p, LineLists(1..FewItems, Quantities, FewLines))
    \/ createPurchase_insertPurchase(p)
    \/ createPurchase_insertPurchaseItems(p)
    \/ createPurchase_createStockMovement(p)
    \/ createStockMovement_getInventoryByItem(p)
    \/ createStockMovement_updateInventory(p)
    \/ StorageFailure(p)

SpecPurchases == Init /\ [][NextPurchases]_vars

\* the bill routes over the turn of the year
NextYears ==
  \/ \E p \in Handlers :
       \/ createItem_insertItem(p, FewItems)
       \/ createItem_insertInventory(p)
       \/ postBill_getNextBillNumber(p, LineLists(1..FewItems, {1}, FewLines))
       \/ createBill_insertBill(p)
       \/ createBill_insertBillItems(p)
       \/ createBill_createStockMovement(p)
       \/ createStockMovement_getInventoryByItem(p)
       \/ createStockMovement_updateInventory(p)
       \/ StorageFailure(p)
  \/ NewYear

SpecYears == Init /\ [][NextYears]_vars

\* the bill and the purchase routes on documents of several lines over several
\* items, all lines valid; requests are accepted while no document exists, so
\* the documents of the handlers are created concurrently
NextLines ==
  \E p \in Handlers :
    \/ createItem_insertItem(p, MaxItems)
    \/ createItem_insertInventory(p)
    \/ /\ bills = <<>> /\ purchases = <<>>
       /\ postBill_getNextBillNumber(p, LineLists(ItemIds, {MaxQty}, MaxLines))
    \/ createBill_insertBill(p)
    \/ createBill_insertBillItems(p)
    \/ createBill_createStockMovement(p)
    \/ /\ bills = <<>> /\ purchases = <<>>
       /\ postPurchase_getNextPurchaseNumber(p, LineLists(ItemIds, {MaxQty}, MaxLines))
    \/ createPurchase_insertPurchase(p)
    \/ createPurchase_insertPurchaseItems(p)
    \/ createPurchase_createStockMovement(p)
    \/ createStockMovement_getInventoryByItem(p)
    \/ createStockMovement_updateInventory(p)
    \/ StorageFailure(p)

SpecLines == Init /\ [][NextLines]_vars

\* few items created and deleted while movements and short documents refer to
\* them; document requests are accepted while no document exists
NextItems ==
  \E p \in Handlers :
    \/ createItem_insertItem(p, FewItems)
    \/ createItem_insertInventory(p)
    \/ deleteItem(p, 1..FewItems)
    \/ postStockMovement(p, 1..FewItems, {MaxQty})
    \/ /\ bills = <<>> /\ purchases = <<>>
       /\ postBill_getNextBillNumber(p, LineLists(1..FewItems, {MaxQty}, FewLines))
    \/ createBill_insertBill(p)
    \/ createBill_insertBillItems(p)
    \/ createBill_createStockMovement(p)
    \/ /\ bills = <<>> /\ purchases = <<>>
       /\ postPurchase_getNextPurchaseNumber(p, LineLists(1..FewItems, {MaxQty}, FewLines))
    \/ createPurchase_insertPurchase(p)
    \/ createPurchase_insertPurchaseItems(p)
    \/ createPurchase_createStockMovement(p)
    \/ createStockMovement_getInventoryByItem(p)
    \/ createStockMovement_updateInventory(p)
    \/ StorageFailure(p)

SpecItems == Init /\ [][NextItems]_vars

\* no other handler serves a request
Alone(p) == \A q \in Handlers \ {p} : Free(q)

\* one request at a time, no statement failing: items, movements and short
\* documents
NextSequential ==
  \E p \in Handlers :
    \/ Alone(p) /\ createItem_insertItem(p, FewItems)
    \/ createItem_insertInventory(p)
    \/ Alone(p) /\ postStockMovement(p, 1..FewItems, {MaxQty})
    \/ Alone(p) /\ postBill_getNextBillNumber(p, LineLists(1..FewItems, {1}, FewLines))
    \/ createBill_insertBill(p)
    \/ createBill_insertBillItems(p)
    \/ createBill_createStockMovement(p)
    \/ Alone(p) /\ postPurchase_getNextPurchaseNumber(p, LineLists(1..FewItems, {1}, FewLines))
    \/ createPurchase_insertPurchase(p)
    \/ createPurchase_insertPurchaseItems(p)
    \/ createPurchase_createStockMovement(p)
    \/ createStockMovement_getInventoryByItem(p)
    \/ createStockMovement_updateInventory(p)

SpecSequential == Init /\ [][NextSequential]_vars

\* concurrent handlers, each moving the stock of the item that carries its own
\* index once that item has its inventory row; no statement failing
NextApart ==
  \E p \in Handlers :
    \/ createItem_insertItem(p, MaxItems)
    \/ createItem_insertInventory(p)
    \/ postStockMovement(p, {p} \cap DOMAIN inventory, {MaxQty})
    \/ /\ bills = <<>>
       /\ postBill_getNextBillNumber(p, LineLists({p} \cap DOMAIN inventory, {MaxQty}, FewLines))
    \/ createBill_insertBill(p)
    \/ createBill_insertBillItems(p)
    \/ createBill_createStockMovement(p)
    \/ /\ purchases = <<>>
       /\ postPurchase_getNextPurchaseNumber(p, LineLists({p} \cap DOMAIN inventory, {MaxQty}, FewLines))
    \/ createPurchase_insertPurchase(p)
    \/ createPurchase_insertPurchaseItems(p)
    \/ createPurchase_createStockMovement(p)
    \/ createStockMovement_getInventoryByItem(p)
    \/ createStockMovement_updateInventory(p)

SpecApart == Init /\ [][NextApart]_vars

\* documents and the GET routes that read them
NextRoutes ==
  \E p \in Handlers :
    \/ createItem_insertItem(p, FewItems)
    \/ createItem_insertInventory(p)
    \/ /\ bills = <<>>
       /\ postBill_getNextBillNumber(p, LineLists(1..FewItems, {MaxQty}, FewLines))
    \/ createBill_insertBill(p)
    \/ createBill_insertBillItems(p)
    \/ createBill_createStockMovement(p)
    \/ /\ purchases = <<>>
       /\ postPurchase_getNextPurchaseNumber(p, LineLists(1..FewItems, {MaxQty}, FewLines))
    \/ createPurchase_insertPurchase(p)
    \/ createPurchase_insertPurchaseItems(p)
    \/ createPurchase_createStockMovement(p)
    \/ createStockMovement_getInventoryByItem(p)
    \/ createStockMovement_updateInventory(p)
    \/ get(p, Paths(1..FewItems))

SpecRoutes == Init /\ [][NextRoutes]_vars

(* ------------------------------ properties ----------------------------- *)
\* a request for a document is under way: its number is allocated, its
\* response not yet sent
Creating(p, op) == ~Free(p) /\ req[p].op = op

\* the movements createBill / createPurchase recorded for a document number
MovementsOf(number) == SelectSeq(stockMovements, LAMBDA m : m.reason # <<>> /\ m.reason[2] = number)

\* the stock movements of an item, in creation order
Ledger(itemId) == SelectSeq(stockMovements, LAMBDA m : m.itemId = itemId)

\* C1: two bill creations (or two purchase creations) that run concurrently
\* never hold the same allocated number.
C1_ConcurrentAllocationsDiffer ==
  \A p, q \in Handlers : \A op \in {"bill", "purchase"} :
    (p # q /\ Creating(p, op) /\ Creating(q, op)) => req[p].number # req[q].number

\* C2: a bill creation whose number collides at the unique constraint is
\* re-allocated and retried: the collision is surfaced to the caller only by a
\* request that has allocated more than once.
C2_CollisionSurfacedOnlyAfterRetry ==
  \A p \in Handlers :
    (pc[p] = "done" /\ req[p].op = "bill" /\ req[p].err = "unique")
      => req[p].allocations > 1

\* C3: no two persisted bills carry the same number and, in creation order, the
\* numeric suffixes of the bills are strictly increasing; the same for purchases.
C3_NumbersUniqueAndIncreasing ==
  /\ \A i, j \in 1..Len(bills) :
       i < j => /\ bills[i].billNumber # bills[j].billNumber
                /\ parseInt(Suffix(bills[i].billNumber)) < parseInt(Suffix(bills[j].billNumber))
  /\ \A i, j \in 1..Len(purchases) :
       i < j => /\ purchases[i].purchaseNumber # purchases[j].purchaseNumber
                /\ parseInt(Suffix(purchases[i].purchaseNumber))
                     < parseInt(Suffix(purchases[j].purchaseNumber))

\* C3, its case: two bills and two purchases are persisted after requests raced
\* for a number (one of them lost at the unique constraint).
C3_Witness ==
  /\ Len(bills) = 2
  /\ Len(purchases) = 2
  /\ \E p \in Handlers : pc[p] = "done" /\ req[p].err = "unique"

\* C4: a createBill / createPurchase that failed after its header was inserted
\* leaves no header, no line item and no stock movement of that call.
C4_FailedDocumentLeavesNothing ==
  \A p \in Handlers :
    (pc[p] = "done" /\ req[p].err # "none" /\ req[p].docId # 0) =>
      /\ req[p].op = "bill" =>
           /\ \A i \in 1..Len(bills) : bills[i].id # req[p].docId
           /\ \A i \in 1..Len(billItems) : billItems[i].billId # req[p].docId
      /\ req[p].op = "purchase" =>
           /\ \A i \in 1..Len(purchases) : purchases[i].id # req[p].docId
           /\ \A i \in 1..Len(purchaseItems) : purchaseItems[i].purchaseId # req[p].docId
      /\ MovementsOf(req[p].number) = <<>>

\* C5: with no operation in flight, each item's inventory quantity is the replay
\* of its stock movements from 0 (add for 'purchase', subtract and floor at 0 for
\* 'sale', replace for 'adjustment').
RECURSIVE Replay(_)
Replay(ledger) ==
  IF ledger = <<>> THEN 0
  ELSE LET before == Replay(SubSeq(ledger, 1, Len(ledger) - 1))
           m == ledger[Len(ledger)]
       IN  IF m.type = "purchase" THEN before + m.quantity
           ELSE IF m.type = "sale" THEN Max(0, before - m.quantity)
           ELSE IF m.type = "adjustment" THEN m.quantity
           ELSE before

C5_InventoryIsLedgerReplay ==
  (\A p \in Handlers : Free(p)) =>
    \A i \in DOMAIN inventory : inventory[i] = Replay(Ledger(i))

\* C6: two concurrent purchases of q1 >= 1 and q2 >= 1 units of an item whose
\* quantity is 0, both completed and the item's only movements, leave the
\* quantity at q1 + q2.
C6_ConcurrentPurchasesAddUp ==
  \A p, q \in Handlers :
    LET m == req[p].movement
        n == req[q].movement
    IN  (/\ p # q
         /\ pc[p] = "done" /\ req[p].op = "stockMovement" /\ req[p].err = "none"
         /\ pc[q] = "done" /\ req[q].op = "stockMovement" /\ req[q].err = "none"
         /\ m.type = "purchase" /\ n.type = "purchase" /\ m.itemId = n.itemId
         /\ m.quantity >= 1 /\ n.quantity >= 1
         /\ req[p].current = <<0>> /\ req[q].current # NoRow
         /\ Len(Ledger(m.itemId)) = 2)
        => inventory[m.itemId] = m.quantity + n.quantity

\* C7: a createStockMovement that failed, for a movement of a positive amount
\* that changes the quantity of the item's inventory row, did not leave its
\* movement row behind
\* (its quantity change was not made, so the row must not exist either).
C7_FailedMovementLeavesNoRow ==
  \A p \in Handlers :
    (/\ pc[p] = "done" /\ req[p].op = "stockMovement" /\ req[p].err # "none"
     /\ req[p].movement.itemId \in DOMAIN inventory
     /\ req[p].movement.quantity >= 1
     /\ ClampedQuantity(inventory[req[p].movement.itemId], req[p].movement)
          # inventory[req[p].movement.itemId]) =>
      \A i \in 1..Len(stockMovements) : stockMovements[i].id # req[p].movementId

\* C8: while createBill / createPurchase is in progress, a reader that finds the
\* header finds all its line items and all its stock movements.
C8_NoPartialDocumentVisible ==
  \A p \in Handlers :
    /\ (Creating(p, "bill") /\ getBill(req[p].docId) # NoRow) =>
         /\ Len(getBill(req[p].docId)[1].billItems) = Len(req[p].lines)
         /\ Len(MovementsOf(req[p].number)) = Len(req[p].lines)
    /\ (Creating(p, "purchase") /\ getPurchase(req[p].docId) # NoRow) =>
         /\ Len(getPurchase(req[p].docId)[1].purchaseItems) = Len(req[p].lines)
         /\ Len(MovementsOf(req[p].number)) = Len(req[p].lines)

\* C9: when createStockMovement writes the quantity for a 'sale' of more units
\* than the quantity it read, it writes exactly 0.
C9_OversellWritesZero ==
  [][\A p \in Handlers :
       (/\ pc[p] = "updateInventory"
        /\ pc'[p] # "updateInventory"
        /\ req'[p].err = "none"
        /\ req[p].movement.type = "sale"
        /\ req[p].current[1] < req[p].movement.quantity)
       => inventory'[req[p].movement.itemId] = 0]_vars

\* C9, its case: a sale of more units than were in stock has completed and the
\* quantity is 0.
C9_Witness ==
  \E p \in Handlers :
    /\ pc[p] = "done" /\ req[p].op = "stockMovement" /\ req[p].err = "none"
    /\ req[p].movement.type = "sale"
    /\ req[p].current # NoRow
    /\ req[p].current[1] < req[p].movement.quantity
    /\ inventory[req[p].movement.itemId] = 0

\* C10: every inventory row's quantity is >= 0.
C10_QuantityNeverNegative ==
  \A i \in DOMAIN inventory : inventory[i] >= 0

\* C11: once a bill's status is 'paid' or 'cancelled', no later step changes
\* it (so every transition starts from 'pending').
C11_PaidAndCancelledAreTerminal ==
  [][\A i \in 1..Len(bills) :
       bills[i].status \in {"paid", "cancelled"} => bills'[i].status = bills[i].status]_vars

\* the quantities the ledger must refuse: <= 0 for 'purchase' and 'sale',
\* negative for 'adjustment'
InvalidQuantity(m) ==
  \/ m.type \in {"purchase", "sale"} /\ m.quantity <= 0
  \/ m.type = "adjustment" /\ m.quantity < 0

\* C12: a POST /api/stock-movements whose quantity is <= 0 for a 'purchase' or
\* 'sale', or negative for an 'adjustment', writes no movement row.
C12_InvalidQuantityWritesNoMovement ==
  \A p \in Handlers :
    (req[p].op = "stockMovement" /\ InvalidQuantity(req[p].movement)) =>
      \A i \in 1..Len(stockMovements) : stockMovements[i].id # req[p].movementId

\* C13: a bill creation with an empty line-item list writes nothing: no header
\* of that request exists (so the next bill number is what it was) and no
\* movement carries its number.
C13_EmptyBillWritesNothing ==
  \A p \in Handlers :
    (req[p].op = "bill" /\ req[p].lines = <<>>) =>
      /\ \A i \in 1..Len(bills) : bills[i].id # req[p].docId
      /\ \A i \in 1..Len(billItems) : billItems[i].billId # req[p].docId

\* C14: a bill creation that failed because a line names an unknown item, or
\* the header an unknown customer, has written nothing: no header, no line item
\* and no stock movement of that request is persisted.
C14_UnknownReferenceWritesNothing ==
  \A p \in Handlers :
    (pc[p] = "done" /\ req[p].op = "bill" /\ req[p].err = "foreign_key") =>
      /\ \A i \in 1..Len(bills) :
           bills[i].id = req[p].docId => bills[i].billNumber # req[p].number
      /\ \A i \in 1..Len(billItems) : billItems[i].billId # req[p].docId
      /\ \A i \in 1..Len(stockMovements) :
           stockMovements[i].reason # <<"Sale - Bill", req[p].number>>

\* C15: after a successful createBill with n lines, the movements that carry the
\* bill's number are exactly n, the i-th of type 'sale' with the i-th line's item
\* and quantity and the reason "Sale - Bill <billNumber>"; after a successful
\* createPurchase they are n of type 'purchase' with the reason
\* "Purchase - <purchaseNumber>".
C15_OneMovementPerLine ==
  \A p \in Handlers :
    (pc[p] = "done" /\ req[p].err = "none" /\ req[p].op \in {"bill", "purchase"}) =>
      LET lines == req[p].lines
          ms == MovementsOf(req[p].number)
      IN  /\ Len(ms) = Len(lines)
          /\ \A i \in 1..Len(lines) :
               /\ ms[i].itemId = lines[i].itemId
               /\ ms[i].quantity = lines[i].quantity
               /\ req[p].op = "bill" =>
                    ms[i].type = "sale" /\ ms[i].reason = <<"Sale - Bill", req[p].number>>
               /\ req[p].op = "purchase" =>
                    ms[i].type = "purchase" /\ ms[i].reason = <<"Purchase -", req[p].number>>

\* C15, its case: a bill of two lines on different items and a purchase of two
\* lines on different items, created concurrently, have both succeeded.
C15_Witness ==
  \E p, q \in Handlers :
    /\ pc[p] = "done" /\ req[p].err = "none" /\ req[p].op = "bill"
    /\ pc[q] = "done" /\ req[q].err = "none" /\ req[q].op = "purchase"
    /\ Len(req[p].lines) = 2 /\ req[p].lines[1].itemId # req[p].lines[2].itemId
    /\ Len(req[q].lines) = 2 /\ req[q].lines[1].itemId # req[q].lines[2].itemId
    /\ Len(stockMovements) = 4

\* the highest of a set of numeric suffixes, 0 when there is none
Highest(suffixes) ==
  IF suffixes = {} THEN 0 ELSE CHOOSE k \in suffixes : \A j \in suffixes : j <= k

BillSuffixes == {parseInt(Suffix(bills[i].billNumber)) : i \in 1..Len(bills)}

PurchaseSuffixes == {parseInt(Suffix(purchases[i].purchaseNumber)) : i \in 1..Len(purchases)}

\* C16: getNextBillNumber returns a number of the INV series whose suffix is
\* three digits that read k + 1, where k is the highest numeric suffix among all
\* existing bills (001 when there is none); getNextPurchaseNumber likewise for
\* the PUR series.  (The year part is the subject of C18.)
C16_NextNumberFollowsHighest ==
  /\ LET number == getNextBillNumber(bills)
     IN  /\ number[1] = "INV"
         /\ Len(Suffix(number)) = 3
         /\ parseInt(Suffix(number)) = Highest(BillSuffixes) + 1
  /\ LET number == getNextPurchaseNumber(purchases)
     IN  /\ number[1] = "PUR"
         /\ Len(Suffix(number)) = 3
         /\ parseInt(Suffix(number)) = Highest(PurchaseSuffixes) + 1

\* C16, its case: bills and purchases exist, a request was handed 002 and
\* succeeded, and the next bill number is 003.
C16_Witness ==
  /\ Len(bills) = 2
  /\ Len(purchases) = 2
  /\ Suffix(getNextBillNumber(bills)) = <<0, 0, 3>>
  /\ \E p \in Handlers :
       /\ pc[p] = "done" /\ req[p].op = "bill" /\ req[p].err = "none"
       /\ Suffix(req[p].number) = <<0, 0, 2>>

\* C17: the numeric suffixes of the persisted bills are exactly 1..N, in creation
\* order, N being the number of persisted bills: no gap, also after a request
\* failed on a number collision.
C17_BillNumbersContiguous ==
  \A i \in 1..Len(bills) : parseInt(Suffix(bills[i].billNumber)) = i

\* C17, its case: bills are persisted and a request that collided
\* with one of them has failed.
C17_Witness ==
  /\ Len(bills) = 2
  /\ \E p \in Handlers :
       /\ pc[p] = "done" /\ req[p].op = "bill" /\ req[p].err = "unique"
       /\ \E i \in 1..Len(bills) : bills[i].billNumber = req[p].number

\* C18: the number handed to a bill creation carries the calendar year in which
\* it is issued, and its suffix is 001 when no bill was created in that year yet.
C18_NumberCarriesCalendarYear ==
  [][\A p \in Handlers :
       (Free(p) /\ pc'[p] = "createBill_insertBill") =>
         /\ req'[p].number[2] = now
         /\ (\A i \in 1..Len(bills) : bills[i].createdAt < now)
              => Suffix(req'[p].number) = <<0, 0, 1>>]_vars

\* handler p's call of updateBillStatus returns
StatusUpdated(p) ==
  /\ pc[p] = "updateBillStatus"
  /\ pc'[p] = "done"
  /\ req'[p].err = "none"

\* C19: updateBillStatus changes only the status field of the targeted bill:
\* every stock movement, every inventory quantity, every line item, the bill's
\* other fields and every other bill are what they were.
C19_StatusUpdateTouchesOnlyStatus ==
  [][\A p \in Handlers :
       StatusUpdated(p) =>
         /\ stockMovements' = stockMovements
         /\ inventory' = inventory
         /\ billItems' = billItems
         /\ Len(bills') = Len(bills)
         /\ \A i \in 1..Len(bills) :
              /\ bills'[i] = [bills[i] EXCEPT !.status = bills'[i].status]
              /\ bills[i].id # req[p].docId => bills'[i] = bills[i]]_vars

\* C19, its case: a bill that sold the whole stock of an item has been
\* cancelled while another bill exists; the stock is still 0 and the other bill
\* is still pending.
C19_Witness ==
  \E p, q \in Handlers :
    /\ pc[p] = "done" /\ req[p].op = "bill" /\ req[p].err = "none"
    /\ req[p].current = <<MaxQty>>
    /\ pc[q] = "done" /\ req[q].op = "billStatus" /\ req[q].err = "none"
    /\ req[q].docId = req[p].docId /\ req[q].status = "cancelled"
    /\ Len(bills) = 2
    /\ bills[req[p].docId].status = "cancelled"
    /\ \E i \in 1..Len(bills) : i # req[p].docId /\ bills[i].status = "pending"
    /\ Len(MovementsOf(req[p].number)) = Len(req[p].lines)
    /\ inventory[req[p].lines[1].itemId] = 0

\* C20: a purchase creation containing a line with quantity < 1 is rejected.
C20_InvalidPurchaseLineIsRejected ==
  \A p \in Handlers :
    (/\ pc[p] = "done" /\ req[p].op = "purchase"
     /\ \E i \in 1..Len(req[p].lines) : req[p].lines[i].quantity < 1)
      => req[p].err # "none"

\* C21: getNextBillNumber and getNextPurchaseNumber are previews: the step that
\* calls one changes no table and is handed the number after the last
\* document, and the next document that is created carries the number a
\* preview of the table before it gives.
C21_PreviewConsumesNothing ==
  [][/\ \A p \in Handlers :
          (Free(p) /\ req'[p].op \in {"bill", "purchase"} /\ req'[p] # req[p]) =>
            /\ UNCHANGED <<items, inventory, stockMovements, bills, billItems, purchases,
                           purchaseItems>>
            /\ req'[p].op = "bill" => req'[p].number = getNextBillNumber(bills)
            /\ req'[p].op = "purchase" => req'[p].number = getNextPurchaseNumber(purchases)
     /\ Len(bills') > Len(bills) =>
          bills'[Len(bills')].billNumber = getNextBillNumber(bills)
     /\ Len(purchases') > Len(purchases) =>
          purchases'[Len(purchases')].purchaseNumber = getNextPurchaseNumber(purchases)]_vars

\* C21, its case: two requests were handed the same bill number, no bill having
\* been created between their calls; one created the bill under that number.
C21_Witness ==
  \E p, q \in Handlers :
    /\ p # q
    /\ req[p].op = "bill" /\ req[q].op = "bill"
    /\ req[p].number = req[q].number
    /\ pc[q] = "done" /\ req[q].err = "none"
    /\ \E i \in 1..Len(bills) : bills[i].id = req[q].docId /\ bills[i].billNumber = req[p].number
    /\ Len(purchases) >= 1

\* C24: each bill's status is one of pending, paid, cancelled.
C24_StatusInDomain ==
  \A i \in 1..Len(bills) : bills[i].status \in {"pending", "paid", "cancelled"}

\* C27: a bill line for more units than the item's quantity is not rejected:
\* when createStockMovement writes the quantity for it, the bill's header and
\* line are persisted, the 'sale' movement carries the full quantity of the
\* line, the quantity becomes 0 and the request goes on without error.
C27_OversellingBillSucceeds ==
  [][\A p \in Handlers :
       (/\ pc[p] = "updateInventory"
        /\ pc'[p] # "updateInventory"
        /\ req[p].op = "bill"
        /\ req'[p].err # "storage"
        /\ req[p].current[1] < req[p].lines[req[p].idx].quantity)
       => /\ req'[p].err = "none"
          /\ inventory'[req[p].lines[req[p].idx].itemId] = 0
          /\ \E i \in 1..Len(bills) :
               bills[i].id = req[p].docId /\ bills[i].billNumber = req[p].number
          /\ \E i \in 1..Len(billItems) :
               /\ billItems[i].billId = req[p].docId
               /\ billItems[i].quantity = req[p].lines[req[p].idx].quantity
          /\ \E i \in 1..Len(stockMovements) :
               /\ stockMovements[i].id = req[p].movementId
               /\ stockMovements[i].type = "sale"
               /\ stockMovements[i].quantity = req[p].lines[req[p].idx].quantity]_vars

\* C27, its case: a bill for one unit of an item whose quantity was read as 0
\* has been created; the ledger records one unit sold and the quantity is 0.
C27_Witness ==
  \E p \in Handlers :
    /\ pc[p] = "done" /\ req[p].op = "bill" /\ req[p].err = "none"
    /\ req[p].current = <<0>>
    /\ req[p].movement.type = "sale" /\ req[p].movement.quantity = 1
    /\ getBill(req[p].docId) # NoRow
    /\ inventory[req[p].movement.itemId] = 0

\* C28: with no request in flight, every item has an inventory row and every
\* inventory row belongs to an item.
C28_ItemsAndInventoryOneToOne ==
  (\A p \in Handlers : Free(p)) => DOMAIN inventory = items

\* C29: the step in which a bill creation fails on the unique constraint
\* writes nothing, and the request had written nothing before it: no header, no
\* line item, no movement, no quantity.
C29_CollisionLeavesNoTrace ==
  [][\A p \in Handlers :
       (pc[p] = "createBill_insertBill" /\ req'[p].err = "unique") =>
         /\ UNCHANGED <<items, inventory, stockMovements, bills, billItems, purchases,
                        purchaseItems>>
         /\ \A i \in 1..Len(bills) : bills[i].id # req'[p].docId
         /\ \A i \in 1..Len(billItems) : billItems[i].billId # req'[p].docId
         /\ \A i \in 1..Len(stockMovements) : stockMovements[i].id # req'[p].movementId]_vars

\* C29, its case: a bill creation has failed on the unique constraint, the bill
\* that took its number being persisted with its line and its movement.
C29_Witness ==
  \E p \in Handlers :
    /\ pc[p] = "done" /\ req[p].op = "bill" /\ req[p].err = "unique"
    /\ Len(bills) = 1 /\ bills[1].billNumber = req[p].number
    /\ Len(billItems) = 1
    /\ Len(stockMovements) = 1

\* C22: stock movements are append-only: no step changes or removes a movement
\* row that was written.
C22_MovementsAppendOnly ==
  [][/\ Len(stockMovements') >= Len(stockMovements)
     /\ \A i \in 1..Len(stockMovements) : stockMovements'[i] = stockMovements[i]]_vars

\* C22, its case: an item has several movements, and a deleteItem of it has been
\* answered.
C22_Witness ==
  \E p \in Handlers :
    /\ pc[p] = "done" /\ req[p].op = "deleteItem"
    /\ Len(Ledger(req[p].itemId)) >= 2

\* C23: the item reference of every movement, of every bill line and of every
\* purchase line (and of every inventory row) points to an existing item.
C23_ReferencesPointToItems ==
  /\ \A i \in 1..Len(stockMovements) : stockMovements[i].itemId \in items
  /\ \A i \in 1..Len(billItems) : billItems[i].itemId \in items
  /\ \A i \in 1..Len(purchaseItems) : purchaseItems[i].itemId \in items
  /\ DOMAIN inventory \subseteq items

\* C23, its case: deleteItem was called for an item that a movement and a
\* document line reference, and was rejected.
C23_Witness ==
  \E p \in Handlers :
    /\ pc[p] = "done" /\ req[p].op = "deleteItem" /\ req[p].err = "foreign_key"
    /\ \E i \in 1..Len(stockMovements) : stockMovements[i].itemId = req[p].itemId
    /\ \/ \E i \in 1..Len(billItems) : billItems[i].itemId = req[p].itemId
       \/ \E i \in 1..Len(purchaseItems) : purchaseItems[i].itemId = req[p].itemId

\* a createStockMovement has inserted its row and not yet written the quantity
MovementInFlight(p) == pc[p] \in {"getInventoryByItem", "updateInventory"}

\* the ledger applied one movement at a time from 0, clamped after each
RECURSIVE ClampedReplay(_)
ClampedReplay(ledger) ==
  IF ledger = <<>> THEN 0
  ELSE LET previous == ClampedReplay(SubSeq(ledger, 1, Len(ledger) - 1))
           m == ledger[Len(ledger)]
       IN  Max(0, CASE m.type = "purchase" -> previous + m.quantity
                    [] m.type = "sale" -> previous - m.quantity
                    [] m.type = "adjustment" -> m.quantity
                    [] OTHER -> previous)

\* C26: with one request at a time and no statement failing, whenever no
\* movement is between its insert and its quantity write, every item's stored
\* quantity is the step-by-step clamped replay of its ledger.
C26_SequentialQuantityIsClampedReplay ==
  (\A p \in Handlers : ~MovementInFlight(p)) =>
    \A i \in DOMAIN inventory : inventory[i] = ClampedReplay(Ledger(i))

\* an item whose ledger holds a purchase, an adjustment and a sale that was
\* clamped at 0, all applied
C26_Witness ==
  /\ \A p \in Handlers : Free(p)
  /\ \E i \in DOMAIN inventory :
       /\ {"purchase", "sale", "adjustment"} \subseteq
            {Ledger(i)[k].type : k \in 1..Len(Ledger(i))}
       /\ \E k \in 1..Len(Ledger(i)) :
            /\ Ledger(i)[k].type = "sale"
            /\ ClampedReplay(SubSeq(Ledger(i), 1, k - 1)) < Ledger(i)[k].quantity

C30_NextNumberRouteAnswers ==
  \A p \in Handlers :
    /\ (Free(p) /\ req[p].path = <<Literal("api"), Literal("bills"), Literal("next-number")>>) =>
         /\ req[p].route = "getNextBillNumber"
         /\ req[p].response.status = 200
    /\ (Free(p) /\ req[p].path = <<Literal("api"), Literal("purchases"), Literal("next-number")>>) =>
         /\ req[p].route = "getNextPurchaseNumber"
         /\ req[p].response.status = 200

====
